---- MODULE Spec2Model ----
(***************************************************************************)
(* Model of the planning pipeline of agents/planner_agent.py               *)
(* (PlannerAgent.plan and its helpers) and of the coder that main.py runs  *)
(* after it (agents/coder_agent.py).                                       *)
(*                                                                         *)
(* Python values are represented as follows:                               *)
(*   str   -> a TLA+ string (Len, SubSeq and \o act on its characters),    *)
(*            over the characters U+0001-U+00FF                            *)
(*   list  -> a sequence                                                   *)
(*   dict  -> the sequence of its items <<key, value>>, in insertion order *)
(* A function that mutates its argument in place and may raise is an       *)
(* operator returning [plan |-> the object as the call left it,            *)
(* exc |-> "none" or the exception type].                                  *)
(***************************************************************************)
EXTENDS Integers, Sequences, FiniteSets, TLC

VARIABLES
  pc,           \* position in plan() (or in the unit harness)
  goal,         \* user_goal
  domain,       \* local `domain` of plan()
  response,     \* what the last self.llm(...) call did
  output,       \* local `output` of plan(); Unbound until line 110 assigns it
  parsed_json,  \* local `parsed_json` of plan(): the Plan being built
  before,       \* parsed_json as it was before the last step that touched it
  file,         \* the metadata file (plan.json)
  result,       \* value returned by plan()
  exc,          \* exception propagated to the caller, "none" if none
  trace,        \* the operations executed so far, in order
  coder_plan,   \* local `plan` of CoderAgent.run(): what read_plan returned
  saved         \* the code files written by save_code_file, in order

vars ==
  <<pc, goal, domain, response, output, parsed_json, before, file, result, exc,
    trace, coder_plan, saved>>

(***************************************************************************)
(* Text: str.strip(), str.lower(), the `in` operator on strings.           *)
(***************************************************************************)
\* Characters str.strip() removes: those for which str.isspace() is true
\* (U+0009-U+000D, U+001C-U+0020, U+0085, U+00A0).
whitespace ==
  {"\t", "\n", "", "\f", "\r", "", "", "", "", " ",
   "", " "}

RECURSIVE lstrip(_)
lstrip(s) ==
  IF Len(s) > 0 /\ SubSeq(s, 1, 1) \in whitespace
  THEN lstrip(SubSeq(s, 2, Len(s)))
  ELSE s

RECURSIVE rstrip(_)
rstrip(s) ==
  IF Len(s) > 0 /\ SubSeq(s, Len(s), Len(s)) \in whitespace
  THEN rstrip(SubSeq(s, 1, Len(s) - 1))
  ELSE s

strip(s) == rstrip(lstrip(s))

\* The characters str.lower() changes, and what it changes each one to.
uppercase ==
  "ABCDEFGHIJKLMNOPQRSTUVWXYZÀÁÂÃÄÅÆÇÈÉÊËÌÍÎÏÐÑÒÓÔÕÖØÙÚÛÜÝÞ"

lowercase ==
  "abcdefghijklmnopqrstuvwxyzàáâãäåæçèéêëìíîïðñòóôõöøùúûüýþ"

to_lower ==
  [c \in {SubSeq(uppercase, i, i) : i \in 1..Len(uppercase)} |->
     LET i == CHOOSE j \in 1..Len(uppercase) : SubSeq(uppercase, j, j) = c
     IN  SubSeq(lowercase, i, i)]

\* Character by character; the string is split in halves to keep the
\* recursion shallow.
RECURSIVE lower(_)
lower(s) ==
  IF Len(s) = 0 THEN ""
  ELSE IF Len(s) = 1 THEN (IF s \in DOMAIN to_lower THEN to_lower[s] ELSE s)
  ELSE LET half == Len(s) \div 2
       IN  lower(SubSeq(s, 1, half)) \o lower(SubSeq(s, half + 1, Len(s)))

\* sub in s
contains(s, sub) ==
  \E i \in 1..(Len(s) - Len(sub) + 1) : SubSeq(s, i, i + Len(sub) - 1) = sub

(***************************************************************************)
(* dict: the items in insertion order.                                     *)
(***************************************************************************)
EmptyDict == << >>

\* obj.keys()
keys(obj) == {obj[i][1] : i \in 1..Len(obj)}

\* key in obj
has(obj, key) == \E i \in 1..Len(obj) : obj[i][1] = key

\* obj[key], for a key that is there
item(obj, key) == obj[CHOOSE i \in 1..Len(obj) : obj[i][1] = key][2]

\* obj.get(key, default)
get(obj, key, default) == IF has(obj, key) THEN item(obj, key) ELSE default

\* obj[key] = value: a key that is there keeps its place, a new key goes last
setitem(obj, key, value) ==
  IF has(obj, key)
  THEN [i \in 1..Len(obj) |-> IF obj[i][1] = key THEN <<key, value>> ELSE obj[i]]
  ELSE Append(obj, <<key, value>>)

(***************************************************************************)
(* json.dumps on a Plan, with the default separators ", " and ": " and     *)
(* ensure_ascii: inside a string, the quote, the backslash and every       *)
(* character outside U+0020-U+007E are escaped.  The keys of a dict are    *)
(* written in insertion order.                                             *)
(***************************************************************************)
\* U+0001-U+001F and U+007F-U+00FF, in code point order.
control_chars ==
  "\t\n\f\r"

high_chars ==
  " ¡¢£¤¥¦§¨©ª«¬­®¯°±²³´µ¶·¸¹º»¼½¾¿ÀÁÂÃÄÅÆÇÈÉÊËÌÍÎÏÐÑÒÓÔÕÖ×ØÙÚÛÜÝÞßàáâãäåæçèéêëìíîïðñòóôõö÷øùúûüýþÿ"

escaped_chars ==
  {"\"", "\\"} \cup {SubSeq(control_chars, i, i) : i \in 1..Len(control_chars)}
               \cup {SubSeq(high_chars, i, i) : i \in 1..Len(high_chars)}

\* ord(c), for a character that json.dumps writes as \uXXXX
ord(c) ==
  IF \E i \in 1..Len(control_chars) : SubSeq(control_chars, i, i) = c
  THEN CHOOSE i \in 1..Len(control_chars) : SubSeq(control_chars, i, i) = c
  ELSE 126 + CHOOSE i \in 1..Len(high_chars) : SubSeq(high_chars, i, i) = c

hex(n) == SubSeq("0123456789abcdef", n + 1, n + 1)

\* What json.dumps writes for one character of a string.
escape_char(c) ==
  IF c \notin escaped_chars THEN c
  ELSE CASE c = "\"" -> "\\\""
         [] c = "\\" -> "\\\\"
         [] c = "\n" -> "\\n"
         [] c = "\r" -> "\\r"
         [] c = "\t" -> "\\t"
         [] c = "\f" -> "\\f"
         [] c = SubSeq(control_chars, 8, 8) -> "\\b"
         [] OTHER -> "\\u00" \o hex(ord(c) \div 16) \o hex(ord(c) % 16)

RECURSIVE escape(_)
escape(s) ==
  IF Len(s) = 0 THEN ""
  ELSE IF Len(s) = 1 THEN escape_char(s)
  ELSE LET half == Len(s) \div 2
       IN  escape(SubSeq(s, 1, half)) \o escape(SubSeq(s, half + 1, Len(s)))

RECURSIVE join(_)
join(items) ==
  IF Len(items) = 0 THEN ""
  ELSE IF Len(items) = 1 THEN items[1]
  ELSE items[1] \o ", " \o join(Tail(items))

dump_str(s) == "\"" \o escape(s) \o "\""

dump_list(items) == "[" \o join(items) \o "]"

\* dumped: the items of a dict, each value already serialised
dump_dict(dumped) ==
  "{" \o join([i \in 1..Len(dumped) |->
                 dump_str(dumped[i][1]) \o ": " \o dumped[i][2]]) \o "}"

dump_str_list(l) == dump_list([i \in 1..Len(l) |-> dump_str(l[i])])

dump_str_dict(d) == dump_dict([i \in 1..Len(d) |-> <<d[i][1], dump_str(d[i][2])>>])

dump_requirements(r) ==
  dump_dict([i \in 1..Len(r) |->
               <<r[i][1], IF r[i][1] = "core_features"
                          THEN dump_str_list(r[i][2]) ELSE dump_str(r[i][2])>>])

dump_planner(p) ==
  dump_dict([i \in 1..Len(p) |->
               <<p[i][1], IF p[i][1] = "requirements"
                          THEN dump_requirements(p[i][2])
                          ELSE dump_str_list(p[i][2])>>])

dump_coder(c) ==
  dump_dict([i \in 1..Len(c) |->
               <<c[i][1], IF c[i][1] = "tasks"
                          THEN dump_str_list(c[i][2]) ELSE dump_str_dict(c[i][2])>>])

dump_page(pg) ==
  dump_dict([i \in 1..Len(pg) |->
               <<pg[i][1], IF pg[i][1] = "components"
                           THEN dump_str_list(pg[i][2]) ELSE dump_str(pg[i][2])>>])

dump_design_system(ds) ==
  dump_dict([i \in 1..Len(ds) |-> <<ds[i][1], dump_str_dict(ds[i][2])>>])

dump_designer(d) ==
  dump_dict([i \in 1..Len(d) |->
               <<d[i][1],
                 CASE d[i][1] = "pages" ->
                        dump_list([j \in 1..Len(d[i][2]) |-> dump_page(d[i][2][j])])
                   [] d[i][1] = "design_system" -> dump_design_system(d[i][2])
                   [] OTHER -> dump_str(d[i][2])>>])

json_dumps(plan) ==
  dump_dict([i \in 1..Len(plan) |->
               <<plan[i][1],
                 CASE plan[i][1] = "planner" -> dump_planner(plan[i][2])
                   [] plan[i][1] = "coder" -> dump_coder(plan[i][2])
                   [] plan[i][1] = "designer" -> dump_designer(plan[i][2])
                   [] plan[i][1] = "subtasks" -> dump_str_list(plan[i][2])
                   [] OTHER -> dump_str(plan[i][2])>>])

(***************************************************************************)
(* self.domain_templates                                                   *)
(***************************************************************************)
domain_templates ==
  <<
    <<"marketplace", <<
        <<"core_features", <<
            "User authentication and profiles",
            "Product catalog with advanced filtering",
            "Shopping cart and wishlist",
            "Secure payment processing",
            "Order management and tracking",
            "Product search and recommendations",
            "User reviews and ratings",
            "Admin dashboard for product management" >>>>,
        <<"pages", <<
            <<
              <<"name", "Home">>,
              <<"components", <<"Hero section", "Featured products", "Category navigation", "Footer">>>> >>,
            <<
              <<"name", "Product Listing">>,
              <<"components", <<"Filter sidebar", "Product grid", "Sort options", "Pagination">>>> >>,
            <<
              <<"name", "Product Detail">>,
              <<"components", <<
                  "Product images",
                  "Product info",
                  "Size/color selector",
                  "Add to cart",
                  "Reviews" >>>> >>,
            <<
              <<"name", "Shopping Cart">>,
              <<"components", <<"Cart items", "Quantity controls", "Price summary", "Checkout button">>>> >>,
            <<
              <<"name", "Checkout">>,
              <<"components", <<"Shipping form", "Payment form", "Order summary", "Place order">>>> >>,
            <<
              <<"name", "User Profile">>,
              <<"components", <<"Account info", "Order history", "Wishlist", "Address book">>>> >>,
            <<
              <<"name", "Admin Dashboard">>,
              <<"components", <<"Product management", "Order management", "Analytics", "User management">>>> >> >>>>,
        <<"file_structure", <<
            <<"index.html", "Main HTML entry point">>,
            <<"src/App.js", "Main React app component">>,
            <<"src/components/ProductCard.js", "Individual product display">>,
            <<"src/components/ProductGrid.js", "Grid of products">>,
            <<"src/components/CartItem.js", "Shopping cart item component">>,
            <<"src/components/FilterSidebar.js", "Product filtering interface">>,
            <<"src/components/Header.js", "Navigation header with cart icon">>,
            <<"src/pages/Home.js", "Homepage with featured products">>,
            <<"src/pages/ProductListing.js", "Product catalog page">>,
            <<"src/pages/ProductDetail.js", "Individual product page">>,
            <<"src/pages/Cart.js", "Shopping cart page">>,
            <<"src/pages/Checkout.js", "Checkout flow">>,
            <<"src/pages/Profile.js", "User profile page">>,
            <<"src/pages/Admin.js", "Admin dashboard">>,
            <<"src/api/products.js", "Product API service">>,
            <<"src/api/cart.js", "Cart API service">>,
            <<"src/api/orders.js", "Order management API">>,
            <<"src/api/auth.js", "Authentication API">>,
            <<"src/utils/auth.js", "Authentication utilities">>,
            <<"src/utils/cart.js", "Cart management utilities">>,
            <<"src/hooks/useAuth.js", "Authentication React hook">>,
            <<"src/hooks/useCart.js", "Cart management React hook">>,
            <<"src/styles/globals.css", "Global styles">>,
            <<"src/styles/components.css", "Component-specific styles">> >>>> >>>>,
    <<"dashboard", <<
        <<"core_features", <<
            "User authentication and authorization",
            "Data visualization and analytics",
            "Real-time data updates",
            "Interactive charts and graphs",
            "Data filtering and search",
            "Export functionality",
            "User management",
            "Settings and configuration" >>>>,
        <<"pages", <<
            <<
              <<"name", "Dashboard">>,
              <<"components", <<"Overview cards", "Charts", "Recent activity", "Quick actions">>>> >>,
            <<
              <<"name", "Analytics">>,
              <<"components", <<"Data charts", "Filters", "Date range picker", "Export tools">>>> >>,
            <<
              <<"name", "Settings">>,
              <<"components", <<"User preferences", "System settings", "Integrations">>>> >>,
            <<
              <<"name", "Profile">>,
              <<"components", <<"User info", "Security settings", "Notification preferences">>>> >> >>>> >>>>,
    <<"social", <<
        <<"core_features", <<
            "User profiles and authentication",
            "Post creation and sharing",
            "Real-time messaging",
            "Friend/follower system",
            "Content feed algorithm",
            "Media upload and sharing",
            "Notifications system",
            "Content moderation" >>>>,
        <<"pages", <<
            <<
              <<"name", "Feed">>,
              <<"components", <<"Post creation", "News feed", "Story highlights", "Trending">>>> >>,
            <<
              <<"name", "Profile">>,
              <<"components", <<"Profile info", "Post grid", "Followers/following", "Settings">>>> >>,
            <<
              <<"name", "Messages">>,
              <<"components", <<"Chat list", "Message thread", "Media sharing", "Online status">>>> >>,
            <<
              <<"name", "Explore">>,
              <<"components", <<"Trending posts", "Suggested users", "Topics", "Search">>>> >> >>>> >>>> >>

Domains == {"marketplace", "dashboard", "social", "general"}

(***************************************************************************)
(* datetime.now().isoformat(): the clock is the number of operations       *)
(* executed so far, read as seconds.                                       *)
(***************************************************************************)
isoformat(t) ==
  "2025-01-01T00:00:" \o (IF t < 10 THEN "0" ELSE "") \o ToString(t)

(***************************************************************************)
(* PlannerAgent._is_plan_too_generic                                       *)
(***************************************************************************)
generic_indicators ==
  << "To be defined based on goal",
     "Modern web technologies",
     "Main content",
     "Content area" >>

is_plan_too_generic(plan) ==
  LET plan_str == lower(json_dumps(plan))
  IN  \E i \in 1..Len(generic_indicators) :
        contains(plan_str, lower(generic_indicators[i]))

(***************************************************************************)
(* Variants of _enhance_with_domain_content with a slip in the pages       *)
(* branch: one never overwrites designer.pages, one overwrites it without  *)
(* looking whether the key is there.                                       *)
(***************************************************************************)
enhance_without_pages(plan, user_goal, dom) ==
  IF ~has(domain_templates, dom)
  THEN [plan |-> plan, exc |-> "none"]
  ELSE
    LET template == item(domain_templates, dom)
        p1 == IF has(get(plan, "planner", EmptyDict), "requirements")
              THEN setitem(plan, "planner",
                     setitem(item(plan, "planner"), "requirements",
                       setitem(item(item(plan, "planner"), "requirements"), "core_features",
                               item(template, "core_features"))))
              ELSE plan
    IN  IF has(get(p1, "coder", EmptyDict), "file_structure")
        THEN IF has(template, "file_structure")
             THEN [plan |-> setitem(p1, "coder",
                              setitem(item(p1, "coder"), "file_structure",
                                      item(template, "file_structure"))),
                   exc |-> "none"]
             ELSE [plan |-> p1, exc |-> "KeyError"]
        ELSE [plan |-> p1, exc |-> "none"]

enhance_unguarded_pages(plan, user_goal, dom) ==
  IF ~has(domain_templates, dom)
  THEN [plan |-> plan, exc |-> "none"]
  ELSE
    LET template == item(domain_templates, dom)
        p1 == IF has(get(plan, "planner", EmptyDict), "requirements")
              THEN setitem(plan, "planner",
                     setitem(item(plan, "planner"), "requirements",
                       setitem(item(item(plan, "planner"), "requirements"), "core_features",
                               item(template, "core_features"))))
              ELSE plan
        p2 == setitem(p1, "designer",
                setitem(get(p1, "designer", EmptyDict), "pages", item(template, "pages")))
    IN  IF has(get(p2, "coder", EmptyDict), "file_structure")
        THEN IF has(template, "file_structure")
             THEN [plan |-> setitem(p2, "coder",
                              setitem(item(p2, "coder"), "file_structure",
                                      item(template, "file_structure"))),
                   exc |-> "none"]
             ELSE [plan |-> p2, exc |-> "KeyError"]
        ELSE [plan |-> p2, exc |-> "none"]

(***************************************************************************)
(* PlannerAgent._enhance_with_domain_content                               *)
(* The plan is mutated in place: when template["file_structure"] raises    *)
(* KeyError the two earlier assignments have already happened.             *)
(***************************************************************************)
enhance_with_domain_content(plan, user_goal, dom) ==
  IF ~has(domain_templates, dom)
  THEN [plan |-> plan, exc |-> "none"]
  ELSE
    LET template == item(domain_templates, dom)
        p1 == IF has(get(plan, "planner", EmptyDict), "requirements")
              THEN setitem(plan, "planner",
                     setitem(item(plan, "planner"), "requirements",
                       setitem(item(item(plan, "planner"), "requirements"), "core_features",
                               item(template, "core_features"))))
              ELSE plan
        p2 == IF has(get(p1, "designer", EmptyDict), "pages")
              THEN setitem(p1, "designer",
                     setitem(item(p1, "designer"), "pages", item(template, "pages")))
              ELSE p1
    IN  IF has(get(p2, "coder", EmptyDict), "file_structure")
        THEN IF has(template, "file_structure")
             THEN [plan |-> setitem(p2, "coder",
                              setitem(item(p2, "coder"), "file_structure",
                                      item(template, "file_structure"))),
                   exc |-> "none"]
             ELSE [plan |-> p2, exc |-> "KeyError"]
        ELSE [plan |-> p2, exc |-> "none"]

(***************************************************************************)
(* PlannerAgent._ensure_critical_fields                                    *)
(***************************************************************************)
ensure_critical_fields(plan, user_goal, dom) ==
  LET p1 == setitem(plan, "domain", dom)
      p2 == IF ~has(p1, "planner")
            THEN setitem(p1, "planner", EmptyDict) ELSE p1
      p3 == IF ~has(item(p2, "planner"), "requirements")
            THEN setitem(p2, "planner",
                   setitem(item(p2, "planner"), "requirements", EmptyDict))
            ELSE p2
      p4 == IF ~has(p3, "coder")
            THEN setitem(p3, "coder", EmptyDict) ELSE p3
      fill_files == ~has(item(p4, "coder"), "file_structure")
                      /\ has(domain_templates, dom)
      p5 == IF fill_files
            THEN setitem(p4, "coder",
                   setitem(item(p4, "coder"), "file_structure",
                           item(item(domain_templates, dom), "file_structure")))
            ELSE p4
      p6 == IF ~has(p5, "designer")
            THEN setitem(p5, "designer", EmptyDict) ELSE p5
      p7 == IF ~has(item(p6, "designer"), "pages")
                 /\ has(domain_templates, dom)
            THEN setitem(p6, "designer",
                   setitem(item(p6, "designer"), "pages", item(item(domain_templates, dom), "pages")))
            ELSE p6
  IN  IF fill_files /\ ~has(item(domain_templates, dom), "file_structure")
      THEN [plan |-> p4, exc |-> "KeyError"]
      ELSE [plan |-> p7, exc |-> "none"]

(***************************************************************************)
(* PlannerAgent._create_domain_specific_fallback                           *)
(* now: the value datetime.now() returns when base_plan is built.          *)
(***************************************************************************)
create_domain_specific_fallback(user_goal, dom, now) ==
  LET base_plan ==
        << <<"goal", user_goal>>,
           <<"project_type", "web_application">>,
           <<"domain", dom>>,
           <<"planner",
             << <<"subtasks", <<
                  "Define " \o dom \o " requirements and user stories",
                  "Research relevant APIs and third-party services",
                  "Plan technical architecture for " \o dom \o " application",
                  "Create development timeline and milestones" >> >>,
                <<"requirements",
                  << <<"core_features", << "To be defined based on goal" >> >>,
                     <<"tech_stack", "React.js frontend, Node.js backend, PostgreSQL database">>,
                     <<"timeline", "3-4 weeks">> >> >> >> >>,
           <<"coder",
             << <<"tasks", <<
                  "Set up project structure with chosen framework",
                  "Implement " \o dom \o "-specific business logic",
                  "Build user interface components",
                  "Add data persistence layer",
                  "Implement API integrations",
                  "Add authentication and testing" >> >>,
                <<"technical_specs",
                  << <<"frontend", "React.js with TypeScript">>,
                     <<"backend", "Node.js/Express">>,
                     <<"database", "PostgreSQL">>,
                     <<"deployment", "Vercel">> >> >> >> >>,
           <<"designer",
             << <<"theme", "Modern, clean design optimized for " \o dom \o " use case">>,
                <<"pages", << >> >>,
                <<"design_system",
                  << <<"colors",
                       << <<"primary", "#007bff">>, <<"secondary", "#6c757d">> >> >>,
                     <<"typography",
                       << <<"headings", "Inter Bold">>, <<"body", "Inter Regular">> >> >> >> >> >> >>,
           <<"generated_at", isoformat(now)>> >>
  IN  IF ~has(domain_templates, dom)
      THEN [plan |-> base_plan, exc |-> "none"]
      ELSE
        LET template == item(domain_templates, dom)
            b1 == setitem(base_plan, "planner",
                    setitem(item(base_plan, "planner"), "requirements",
                      setitem(item(item(base_plan, "planner"), "requirements"), "core_features",
                              item(template, "core_features"))))
        IN  IF ~has(template, "file_structure")
            THEN [plan |-> b1, exc |-> "KeyError"]
            ELSE [plan |-> setitem(
                             setitem(b1, "coder",
                               setitem(item(b1, "coder"), "file_structure",
                                       item(template, "file_structure"))),
                             "designer",
                             setitem(item(b1, "designer"), "pages", item(template, "pages"))),
                  exc |-> "none"]

(***************************************************************************)
(* Inputs.                                                                 *)
(***************************************************************************)
\* Longest run of whitespace the model puts around its classification answer.
MaxPad == 1

\* Calls made by the unit harness on one Plan.
MaxCalls == 2

Goals ==
  { "Build a shoe marketplace.",
    "Build a weather forecast web app using an API." }

RECURSIVE Pads(_)
Pads(n) ==
  IF n = 0 THEN {""}
  ELSE Pads(n - 1) \cup {p \o c : p \in Pads(n - 1), c \in {" ", "\n"}}

ClassifierWords ==
  { "marketplace", "Marketplace", "dashboard", "DASHBOARD", "social", "Social",
    "general", "General", "", "e-commerce", "social media", "socials",
    "Domain: social" }

ClassifierTexts ==
  {l \o w \o r : l \in Pads(MaxPad), w \in ClassifierWords, r \in Pads(MaxPad)}

\* What a call self.llm(...) does: it raises, or returns a response object.
NoResponse == [kind |-> "none"]

\* Exception types a call of the model may raise.
RaisedTypes == {"RuntimeError", "ValueError", "KeyError", "JSONDecodeError"}

Raises(exc_type) == [kind |-> "raises", exc |-> exc_type]

AllRaises == {Raises(e) : e \in RaisedTypes}

Returns(value) == [kind |-> "returns", value |-> value]

TextResponse(text) == Returns(<< <<"choices", << << <<"text", text>> >> >> >> >>)

\* Responses from which response["choices"][0]["text"] cannot be read.
MalformedResponses ==
  { Returns(EmptyDict),
    Returns(<< <<"choices", << >> >> >>),
    Returns(<< <<"choices", << EmptyDict >> >> >>) }

ClassifierResponses ==
  AllRaises \cup MalformedResponses \cup {TextResponse(t) : t \in ClassifierTexts}

\* Objects the planning-stage model may emit: every combination of the
\* sections below, each section absent, empty, partial or full, with the
\* sections in the order of the prompt's example and in the opposite order.
\* Two of the first put a list of subtasks at the top level, beside the
\* sections.
TopOpts ==
  { EmptyDict,
    << <<"goal", "Build a water pollution monitoring dashboard">> >>,
    << <<"goal", "Build a water pollution monitoring dashboard">>,
       <<"project_type", "dashboard">>,
       <<"domain", "environment">> >>,
    << <<"goal", "Build a water pollution monitoring dashboard">>,
       <<"subtasks", <<"Define data inputs", "Plan backend API">> >> >>,
    << <<"subtasks", <<"Set up the project", "Track the work in Trello", "Deploy">> >> >> }

PlannerOpts ==
  { EmptyDict,
    << <<"planner", EmptyDict>> >>,
    << <<"planner", << <<"subtasks", <<"Define data inputs", "Plan backend API">> >> >> >> >>,
    << <<"planner", << <<"requirements", EmptyDict>> >> >> >>,
    << <<"planner",
         << <<"subtasks", <<"Define data inputs", "Plan backend API">> >>,
            <<"requirements",
              << <<"core_features", <<"Live pollution feed", "Export graphs">> >>,
                 <<"tech_stack", "React + Flask + PostgreSQL">>,
                 <<"timeline", "3 weeks">> >> >> >> >> >>,
    << <<"planner",
         << <<"requirements",
              << <<"tech_stack", "Modern web technologies">>,
                 <<"core_features", <<"To be defined based on goal">> >> >> >>,
            <<"subtasks", << >> >> >> >> >> }

CoderOpts ==
  { EmptyDict,
    << <<"coder", EmptyDict>> >>,
    << <<"coder", << <<"tasks", <<"Create chart components">> >> >> >> >>,
    << <<"coder",
         << <<"tasks", <<"Create chart components", "Integrate pollution API">> >>,
            <<"technical_specs",
              << <<"frontend", "React.js">>, <<"backend", "Flask">> >> >>,
            <<"file_structure",
              << <<"src/pages/Dashboard.js", "Main dashboard view">>,
                 <<"src/api/pollution.js", "API layer for pollution data">> >> >> >> >> >> }

DesignerOpts ==
  { EmptyDict,
    << <<"designer", EmptyDict>> >>,
    << <<"designer",
         << <<"theme", "Scientific \"clean\" UI with a blue-green palette">> >> >> >>,
    << <<"designer", << <<"theme", "Clean UI">>, <<"pages", << >> >> >> >> >>,
    << <<"designer",
         << <<"theme", "Clean UI">>,
            <<"pages",
              << << <<"name", "Home">>,
                    <<"components", <<"Header", "MAIN CONTENT", "Footer">> >> >> >> >>,
            <<"design_system",
              << <<"colors", << <<"primary", "#2196F3">> >> >>,
                 <<"typography", << <<"headings", "Roboto">> >> >> >> >> >> >> >> }

Docs ==
  {t \o p \o c \o d :
     t \in TopOpts, p \in PlannerOpts, c \in CoderOpts, d \in DesignerOpts}
  \cup
  {d \o c \o p \o t :
     t \in TopOpts, p \in PlannerOpts, c \in CoderOpts, d \in DesignerOpts}

\* Model outputs that are not valid JSON: empty, prose, a truncated object,
\* an object followed by more text.
InvalidTexts ==
  { "", "Sorry, I cannot help with that.", "{\"goal\": \"Build a", "{} # notes" }

ArrayTexts == { "[]", "[\"Define data inputs\"]" }

ScalarTexts == { "42", "\"plan\"", "true", "null" }

\* The text of each object, as the model writes it.
ObjectTexts == {<<json_dumps(d), d>> : d \in Docs}

PlannerTexts ==
  InvalidTexts \cup ArrayTexts \cup ScalarTexts
    \cup {"\n" \o p[1] \o "\n" : p \in ObjectTexts}

PlannerResponses ==
  AllRaises \cup MalformedResponses \cup {TextResponse(t) : t \in PlannerTexts}

(***************************************************************************)
(* json.loads, given by its result on each text above: the decoded value   *)
(* and its Python type, or JSONDecodeError.                                *)
(***************************************************************************)
json_loads(s) ==
  IF \E p \in ObjectTexts : p[1] = s
  THEN [exc |-> "none", pytype |-> "dict",
        value |-> (CHOOSE p \in ObjectTexts : p[1] = s)[2]]
  ELSE IF s \in ArrayTexts
  THEN [exc |-> "none", pytype |-> "list", value |-> s]
  ELSE IF s \in ScalarTexts
  THEN [exc |-> "none", pytype |-> "scalar", value |-> s]
  ELSE [exc |-> "JSONDecodeError"]

\* response["choices"][0]["text"]
extract_text(resp) ==
  IF ~has(resp, "choices") THEN [exc |-> "KeyError"]
  ELSE IF Len(item(resp, "choices")) = 0 THEN [exc |-> "IndexError"]
  ELSE IF ~has(item(resp, "choices")[1], "text") THEN [exc |-> "KeyError"]
  ELSE [exc |-> "none", text |-> item(item(resp, "choices")[1], "text")]

\* _detect_domain without the .strip() of line 154.
detect_domain_unstripped(user_goal, llm) ==
  IF llm.kind = "raises" THEN "general"
  ELSE LET e == extract_text(llm.value)
       IN  IF e.exc # "none" THEN "general"
           ELSE LET d == lower(e.text)
                IN  IF d \notin {"marketplace", "dashboard", "social", "general"}
                    THEN "general"
                    ELSE d

(***************************************************************************)
(* PlannerAgent._detect_domain, as a function of what the model call did.  *)
(***************************************************************************)
detect_domain(user_goal, llm) ==
  IF llm.kind = "raises" THEN "general"
  ELSE LET e == extract_text(llm.value)
       IN  IF e.exc # "none" THEN "general"
           ELSE LET d == lower(strip(e.text))
                IN  IF d \notin {"marketplace", "dashboard", "social", "general"}
                    THEN "general"
                    ELSE d

(***************************************************************************)
(* PlannerAgent.plan                                                       *)
(***************************************************************************)
Unbound == [bound |-> FALSE]

NoFile == [exists |-> FALSE]

Init ==
  /\ pc = "classify"
  /\ goal \in Goals
  /\ domain = ""
  /\ response = NoResponse
  /\ output = Unbound
  /\ parsed_json = EmptyDict
  /\ before = EmptyDict
  /\ file = NoFile
  /\ result = << >>
  /\ exc = "none"
  /\ trace = << >>
  /\ coder_plan = EmptyDict
  /\ saved = << >>

\* line 99: domain = self._detect_domain(user_goal)
DetectDomain ==
  /\ pc = "classify"
  /\ \E r \in ClassifierResponses :
       /\ response' = r
       /\ domain' = detect_domain(goal, r)
  /\ pc' = "invoke"
  /\ trace' = Append(trace, "_detect_domain")
  /\ UNCHANGED <<coder_plan, saved, goal, output, parsed_json, before, file, result, exc>>

\* line 108: response = self.llm(prompt, ...), inside the try of lines
\* 107-126: a JSONDecodeError or KeyError raised by the call enters the handler
\* of line 123, any other error leaves plan().
InvokeModel ==
  /\ pc = "invoke"
  /\ \E r \in PlannerResponses :
       /\ response' = r
       /\ IF r.kind = "raises"
          THEN IF r.exc \in {"JSONDecodeError", "KeyError"}
               THEN pc' = "except" /\ exc' = exc
               ELSE pc' = "raised" /\ exc' = r.exc
          ELSE pc' = "extract" /\ exc' = exc
  /\ trace' = Append(trace, "llm")
  /\ UNCHANGED <<coder_plan, saved, goal, domain, output, parsed_json, before, file, result>>

\* line 110: output = response["choices"][0]["text"].strip()
ExtractOutput ==
  /\ pc = "extract"
  /\ LET e == extract_text(response.value)
     IN  CASE e.exc = "none" ->
                /\ output' = [bound |-> TRUE, text |-> strip(e.text)]
                /\ pc' = "parse" /\ exc' = exc
           [] e.exc = "KeyError" ->
                /\ pc' = "except" /\ exc' = exc
                /\ output' = output
           [] OTHER ->
                /\ pc' = "raised" /\ exc' = e.exc
                /\ output' = output
  /\ trace' = Append(trace, "extract")
  /\ UNCHANGED <<coder_plan, saved, goal, domain, response, parsed_json, before, file, result>>

\* line 113: parsed_json = json.loads(output)
ParseJson ==
  /\ pc = "parse"
  /\ LET r == json_loads(output.text)
     IN  IF r.exc = "none"
         THEN pc' = "stamp" /\ parsed_json' = r.value
         ELSE pc' = "except" /\ parsed_json' = parsed_json
  /\ trace' = Append(trace, "json.loads")
  /\ UNCHANGED <<coder_plan, saved, goal, domain, response, output, before, file, result, exc>>

\* line 116: parsed_json["generated_at"] = datetime.now().isoformat()
\* Item assignment with a str key raises TypeError on a list or a scalar.
AddTimestamp ==
  /\ pc = "stamp"
  /\ IF json_loads(output.text).pytype = "dict"
     THEN /\ parsed_json' = setitem(parsed_json, "generated_at", isoformat(Len(trace)))
          /\ before' = parsed_json
          /\ pc' = "post_process" /\ exc' = exc
     ELSE /\ pc' = "raised" /\ exc' = "TypeError"
          /\ UNCHANGED <<parsed_json, before>>
  /\ trace' = Append(trace, "generated_at")
  /\ UNCHANGED <<coder_plan, saved, goal, domain, response, output, file, result>>

\* line 264 (in _post_process_plan): if self._is_plan_too_generic(plan)
CheckGeneric ==
  /\ pc = "post_process"
  /\ pc' = IF is_plan_too_generic(parsed_json) THEN "enhance" ELSE "complete"
  /\ trace' = Append(trace, "_is_plan_too_generic")
  /\ UNCHANGED <<coder_plan, saved, goal, domain, response, output, parsed_json, before, file, result, exc>>

\* line 266: plan = self._enhance_with_domain_content(plan, goal, domain)
\* A KeyError leaves _post_process_plan and is caught at line 123.
Enhance ==
  /\ pc = "enhance"
  /\ LET r == enhance_with_domain_content(parsed_json, goal, domain)
     IN  /\ parsed_json' = r.plan
         /\ pc' = IF r.exc = "none" THEN "complete" ELSE "except"
  /\ before' = parsed_json
  /\ trace' = Append(trace, "_enhance_with_domain_content")
  /\ UNCHANGED <<coder_plan, saved, goal, domain, response, output, file, result, exc>>

\* line 269: plan = self._ensure_critical_fields(plan, goal, domain)
Complete ==
  /\ pc = "complete"
  /\ LET r == ensure_critical_fields(parsed_json, goal, domain)
     IN  /\ parsed_json' = r.plan
         /\ pc' = IF r.exc = "none" THEN "save" ELSE "except"
  /\ before' = parsed_json
  /\ trace' = Append(trace, "_ensure_critical_fields")
  /\ UNCHANGED <<coder_plan, saved, goal, domain, response, output, file, result, exc>>

\* lines 123-126: except (json.JSONDecodeError, KeyError): the handler prints
\* `output` (UnboundLocalError when line 110 never assigned it), then calls
\* the fallback generator, whose own KeyError is raised inside the handler.
HandleError ==
  /\ pc = "except"
  /\ IF ~output.bound
     THEN /\ pc' = "raised" /\ exc' = "UnboundLocalError"
          /\ trace' = Append(trace, "except")
          /\ UNCHANGED <<parsed_json, before>>
     ELSE LET r == create_domain_specific_fallback(goal, domain, Len(trace))
          IN  /\ trace' = Append(trace, "_create_domain_specific_fallback")
              /\ IF r.exc = "none"
                 THEN /\ parsed_json' = r.plan
                      /\ before' = parsed_json
                      /\ pc' = "save" /\ exc' = exc
                 ELSE /\ pc' = "raised" /\ exc' = r.exc
                      /\ UNCHANGED <<parsed_json, before>>
  /\ UNCHANGED <<coder_plan, saved, goal, domain, response, output, file, result>>

\* lines 129-133: json.dump(parsed_json, f); return the planner's subtasks
SavePlan ==
  /\ pc = "save"
  /\ file' = [exists |-> TRUE, content |-> parsed_json]
  /\ result' = get(get(parsed_json, "planner", EmptyDict), "subtasks", << >>)
  /\ pc' = "done"
  /\ trace' = Append(trace, "save")
  /\ UNCHANGED <<coder_plan, saved, goal, domain, response, output, parsed_json, before, exc>>

\* line 129: open(metadata_file, 'w') fails; nothing catches it
SaveFails ==
  /\ pc = "save"
  /\ pc' = "raised" /\ exc' = "OSError"
  /\ trace' = Append(trace, "save")
  /\ UNCHANGED <<coder_plan, saved, goal, domain, response, output, parsed_json, before, file, result>>

Next ==
  \/ DetectDomain
  \/ InvokeModel
  \/ ExtractOutput
  \/ ParseJson
  \/ AddTimestamp
  \/ CheckGeneric
  \/ Enhance
  \/ Complete
  \/ HandleError
  \/ SavePlan
  \/ SaveFails

Spec == Init /\ [][Next]_vars

(***************************************************************************)
(* Unit harness: _enhance_with_domain_content and _ensure_critical_fields  *)
(* called directly, up to MaxCalls times, on every Plan object and domain. *)
(***************************************************************************)
InitUnit ==
  /\ pc = "unit"
  /\ goal \in Goals
  /\ domain \in Domains
  /\ parsed_json \in Docs
  /\ before = parsed_json
  /\ response = NoResponse
  /\ output = Unbound
  /\ file = NoFile
  /\ result = << >>
  /\ exc = "none"
  /\ trace = << >>
  /\ coder_plan = EmptyDict
  /\ saved = << >>

CallEnhance ==
  /\ pc = "unit"
  /\ Len(trace) < MaxCalls
  /\ LET r == enhance_with_domain_content(parsed_json, goal, domain)
     IN  /\ parsed_json' = r.plan
         /\ exc' = r.exc
         /\ pc' = IF r.exc = "none" THEN "unit" ELSE "raised"
  /\ before' = parsed_json
  /\ trace' = Append(trace, "_enhance_with_domain_content")
  /\ UNCHANGED <<coder_plan, saved, goal, domain, response, output, file, result>>

CallComplete ==
  /\ pc = "unit"
  /\ Len(trace) < MaxCalls
  /\ LET r == ensure_critical_fields(parsed_json, goal, domain)
     IN  /\ parsed_json' = r.plan
         /\ exc' = r.exc
         /\ pc' = IF r.exc = "none" THEN "unit" ELSE "raised"
  /\ before' = parsed_json
  /\ trace' = Append(trace, "_ensure_critical_fields")
  /\ UNCHANGED <<coder_plan, saved, goal, domain, response, output, file, result>>

NextUnit == CallEnhance \/ CallComplete

SpecUnit == InitUnit /\ [][NextUnit]_vars

(***************************************************************************)
(* CoderAgent (agents/coder_agent.py), run by main() after plan().         *)
(***************************************************************************)
\* What the coding model may write for one subtask.
CoderTexts ==
  { "import os\nprint(os.getcwd())",
    "\n<HTML><body>Hi</body></HTML>\n",
    "function main() { console.log(1); }",
    "body { color: red; }",
    "TODO" }

CoderResponses ==
  AllRaises \cup MalformedResponses \cup {TextResponse(t) : t \in CoderTexts}

triggers ==
  << "<|question_end|>", "question 1", "solution", "trello", "asana",
     "microsoft project" >>

\* any(trigger in task.lower() for trigger in [...])
has_trigger(task) ==
  \E i \in 1..Len(triggers) : contains(lower(task), triggers[i])

\* The loop of read_plan: the subtasks up to the first one with a trigger.
RECURSIVE cleaned_subtasks(_)
cleaned_subtasks(subtasks) ==
  IF Len(subtasks) = 0 \/ has_trigger(subtasks[1]) THEN << >>
  ELSE <<subtasks[1]>> \o cleaned_subtasks(Tail(subtasks))

\* CoderAgent.read_plan, on the decoded content of the file.
read_plan(plan) ==
  << <<"goal", get(plan, "goal", "")>>,
     <<"subtasks", cleaned_subtasks(get(plan, "subtasks", << >>))>> >>

\* The extension save_code_file chooses.
extension(code) ==
  IF contains(lower(code), "<html>") THEN "html"
  ELSE IF contains(code, "import") \/ contains(code, "def ") THEN "py"
  ELSE IF contains(code, "function") \/ contains(code, "console.log") THEN "js"
  ELSE IF contains(code, "{") /\ contains(code, ":") THEN "css"
  ELSE "txt"

\* f"task_{index+1}.{ext}", index counted from 0
filename(code, index) == "task_" \o ToString(index + 1) \o "." \o extension(code)

\* run() line 65: plan = self.read_plan()
ReadPlan ==
  /\ pc = "done"
  /\ LET plan == read_plan(file.content)
     IN  /\ coder_plan' = plan
         /\ pc' = IF Len(get(plan, "subtasks", << >>)) = 0
                  THEN "coder_done" ELSE "coding"
  /\ trace' = Append(trace, "read_plan")
  /\ UNCHANGED <<saved, goal, domain, response, output, parsed_json, before,
                 file, result, exc>>

\* run() lines 69-72, one iteration: generate_code, then save_code_file.
\* Nothing catches an error of the model call or of reading its text.
CodeSubtask ==
  /\ pc = "coding"
  /\ LET subtasks == get(coder_plan, "subtasks", << >>)
         i == Len(saved)
         subtask == subtasks[i + 1]
     IN  \E r \in CoderResponses :
           /\ response' = r
           /\ IF r.kind = "raises"
              THEN pc' = "raised" /\ exc' = r.exc /\ saved' = saved
              ELSE LET e == extract_text(r.value)
                   IN  IF e.exc # "none"
                       THEN pc' = "raised" /\ exc' = e.exc /\ saved' = saved
                       ELSE LET code == strip(e.text)
                            IN  /\ saved' = Append(saved,
                                      [filename |-> filename(code, i),
                                       code |-> code,
                                       subtask |-> subtask])
                                /\ pc' = IF i + 1 = Len(subtasks)
                                         THEN "coder_done" ELSE "coding"
                                /\ exc' = exc
  /\ trace' = Append(trace, "generate_code")
  /\ UNCHANGED <<coder_plan, goal, domain, output, parsed_json, before, file, result>>

\* main(): planner.plan(goal), then CoderAgent().run()
NextMain == Next \/ ReadPlan \/ CodeSubtask

SpecMain == Init /\ [][NextMain]_vars

(***************************************************************************)
(* Properties.                                                             *)
(***************************************************************************)
Ran(op) == \E i \in 1..Len(trace) : trace[i] = op

LastOp == IF Len(trace) = 0 THEN "" ELSE trace[Len(trace)]

\* Position in trace of the only occurrence of op.
IndexOf(op) == CHOOSE i \in 1..Len(trace) : trace[i] = op

Templated == has(domain_templates, domain)

\* The planning-stage call (line 108) has been made.
Invoked == Ran("llm")

\* The only exception the claims below let plan() propagate.
NoModelErrorEscapes == pc = "raised" => exc = "OSError"

TopLevelFields ==
  {"goal", "project_type", "domain", "planner", "coder", "designer", "generated_at"}

\* Every field of the data model is there.
StructurallyComplete(plan) ==
  /\ TopLevelFields \subseteq keys(plan)
  /\ {"subtasks", "requirements"} \subseteq keys(item(plan, "planner"))
  /\ {"core_features", "tech_stack", "timeline"}
       \subseteq keys(item(item(plan, "planner"), "requirements"))
  /\ {"tasks", "technical_specs", "file_structure"} \subseteq keys(item(plan, "coder"))
  /\ {"theme", "pages", "design_system"} \subseteq keys(item(plan, "designer"))

\* C1: whenever plan() returns, the persisted Plan has goal, project_type,
\* domain, planner, coder, designer and generated_at, and planner.subtasks,
\* whether it was parsed (even from {}) or produced by the fallback.
C1_PersistedPlanHasAllFields ==
  pc = "done" =>
    /\ TopLevelFields \subseteq keys(file.content)
    /\ has(item(file.content, "planner"), "subtasks")

\* The model output was read and json.loads rejected it.
DecodeFailed ==
  /\ Ran("json.loads")
  /\ json_loads(output.text).exc = "JSONDecodeError"

\* C2: for every domain, when the model output is not valid JSON, plan() does
\* not raise and the persisted Plan has every field of the data model.
C2_InvalidOutputYieldsCompletePlan ==
  DecodeFailed =>
    /\ NoModelErrorEscapes
    /\ pc = "done" => StructurallyComplete(file.content)

\* The planning-stage call raised, or returned a response without a text.
InvocationFailed ==
  /\ Invoked
  /\ \/ response.kind = "raises"
     \/ extract_text(response.value).exc # "none"

\* C3: when the planning-stage model call fails, plan() does not propagate the
\* failure; it persists the fallback Plan.
C3_InvocationFailureIsAbsorbed ==
  InvocationFailed =>
    /\ NoModelErrorEscapes
    /\ pc = "done" => Ran("_create_domain_specific_fallback")

\* The model output decoded to a JSON array or scalar.
DecodedNonObject ==
  /\ Ran("json.loads")
  /\ json_loads(output.text).exc = "none"
  /\ json_loads(output.text).pytype # "dict"

\* C4: when the model output is valid JSON but not an object, plan() does not
\* raise and the persisted Plan is the fallback Plan.
C4_NonObjectYieldsFallback ==
  DecodedNonObject =>
    /\ NoModelErrorEscapes
    /\ pc = "done" => Ran("_create_domain_specific_fallback")

\* C5: _detect_domain never raises and returns one of the four domains: the
\* trimmed, lower-cased model text when that is one of the four tokens,
\* general in every other case (other text, malformed response, exception).
C5_DetectDomainIsClosed ==
  trace = <<"_detect_domain">> =>
    /\ pc = "invoke"
    /\ exc = "none"
    /\ domain \in Domains
    /\ LET answered == /\ response.kind = "returns"
                       /\ extract_text(response.value).exc = "none"
       IN  IF answered /\ lower(strip(item(item(response.value, "choices")[1], "text"))) \in Domains
           THEN domain = lower(strip(item(item(response.value, "choices")[1], "text")))
           ELSE domain = "general"

\* C5 reached: the answer "\nSocial " is trimmed and lower-cased to social.
C5_Witness ==
  /\ trace = <<"_detect_domain">>
  /\ response = TextResponse("\nSocial ")
  /\ domain = "social"

\* C6: _ensure_critical_fields returns a Plan for every Plan object and every
\* domain, and a second application gives the same Plan as the first.
C6_CompleterIsIdempotent ==
  /\ LastOp = "_ensure_critical_fields" => exc = "none"
  /\ ( /\ Len(trace) >= 2
       /\ trace[Len(trace) - 1] = "_ensure_critical_fields"
       /\ LastOp = "_ensure_critical_fields" ) => parsed_json = before

\* C7, as claimed: for a templated domain, a Plan flagged generic and then
\* enhanced has designer.pages equal to the template's page list.
C7_EnhancedPagesAreTemplatePages ==
  LastOp = "_enhance_with_domain_content" /\ pc = "complete" /\ Templated =>
    /\ has(get(parsed_json, "designer", EmptyDict), "pages")
    /\ item(item(parsed_json, "designer"), "pages") = item(item(domain_templates, domain), "pages")

\* C7, amended: for a templated domain, after the enhancer has run on a Plan
\* flagged generic, designer.pages equals the template's page list when the
\* Plan had a designer.pages key, and is still absent when it had none.
C7_EnhancedPagesWhenPresent ==
  LastOp = "_enhance_with_domain_content" /\ Templated =>
    IF has(get(before, "designer", EmptyDict), "pages")
    THEN /\ has(get(parsed_json, "designer", EmptyDict), "pages")
         /\ item(item(parsed_json, "designer"), "pages") = item(item(domain_templates, domain), "pages")
    ELSE ~has(get(parsed_json, "designer", EmptyDict), "pages")

\* C7 reached: a generic social Plan that had other pages now has the
\* template's.
C7_Witness ==
  /\ LastOp = "_enhance_with_domain_content"
  /\ pc = "complete"
  /\ domain = "social"
  /\ has(get(before, "designer", EmptyDict), "pages")
  /\ item(item(before, "designer"), "pages") # item(item(domain_templates, "social"), "pages")
  /\ item(item(parsed_json, "designer"), "pages") = item(item(domain_templates, "social"), "pages")

\* obj without key
without(obj, key) == SelectSeq(obj, LAMBDA it : it[1] # key)

\* plan without the three values the enhancer may overwrite.
Masked(plan) ==
  LET m1 == IF has(get(plan, "planner", EmptyDict), "requirements")
            THEN setitem(plan, "planner",
                   setitem(item(plan, "planner"), "requirements",
                           without(item(item(plan, "planner"), "requirements"), "core_features")))
            ELSE plan
      m2 == IF has(m1, "designer")
            THEN setitem(m1, "designer", without(item(m1, "designer"), "pages"))
            ELSE m1
  IN  IF has(m2, "coder")
      THEN setitem(m2, "coder", without(item(m2, "coder"), "file_structure"))
      ELSE m2

\* C8: the enhancer leaves the Plan unchanged for domain general; for a
\* templated domain it changes at most planner.requirements.core_features,
\* designer.pages and coder.file_structure, each only under a key that was
\* there, and a guarding key that was absent is still absent.
C8_EnhancerFrame ==
  LastOp = "_enhance_with_domain_content" =>
    /\ ~Templated => parsed_json = before
    /\ Masked(parsed_json) = Masked(before)
    /\ ~has(get(before, "planner", EmptyDict), "requirements")
         => ~has(get(parsed_json, "planner", EmptyDict), "requirements")
    /\ ~has(get(before, "designer", EmptyDict), "pages")
         => ~has(get(parsed_json, "designer", EmptyDict), "pages")
    /\ ~has(get(before, "coder", EmptyDict), "file_structure")
         => ~has(get(parsed_json, "coder", EmptyDict), "file_structure")

\* C8 reached: the enhancer changed a marketplace Plan whose designer has no
\* pages key, and the key is still absent.
C8_Witness ==
  /\ LastOp = "_enhance_with_domain_content"
  /\ domain = "marketplace"
  /\ parsed_json # before
  /\ has(before, "designer")
  /\ ~has(item(before, "designer"), "pages")
  /\ ~has(item(parsed_json, "designer"), "pages")

\* C9: on every Plan about to be persisted the Field Completer was the last
\* step, after a successful parse (with or without the enhancer) and after
\* the fallback generator, where the enhancer has not run on the fallback Plan.
C9_CompleterAlwaysRuns ==
  pc = "save" =>
    /\ LastOp = "_ensure_critical_fields"
    /\ Ran("_create_domain_specific_fallback") =>
         /\ IndexOf("_create_domain_specific_fallback") < Len(trace)
         /\ \A i \in IndexOf("_create_domain_specific_fallback")..Len(trace) :
              trace[i] # "_enhance_with_domain_content"

\* C10: generated_at is attached only at the hand-off to persistence: it is
\* not on the Plan at parse time, before the genericity check, while the Plan
\* is enhanced and completed, or when the fallback generator returns it, and
\* it is on the persisted Plan.
C10_TimestampAttachedLast ==
  /\ pc \in {"post_process", "enhance", "complete"}
       => ~has(parsed_json, "generated_at")
  /\ pc = "save" /\ LastOp = "_create_domain_specific_fallback"
       => ~has(parsed_json, "generated_at")
  /\ pc = "done" => has(file.content, "generated_at")

\* The model output decoded to an object.
ParsedToObject ==
  /\ Ran("json.loads")
  /\ json_loads(output.text).exc = "none"
  /\ json_loads(output.text).pytype = "dict"

\* C11: whenever the model output parses to an object, for every domain and
\* every shape of the object, the fallback generator is not invoked, plan()
\* does not raise, and the persisted Plan is the parsed Plan after
\* enhancement and completion.
C11_FallbackOnlyOnParseFailure ==
  ParsedToObject =>
    /\ ~Ran("_create_domain_specific_fallback")
    /\ NoModelErrorEscapes
    /\ pc = "done" => /\ LastOp = "save"
                      /\ trace[Len(trace) - 1] = "_ensure_critical_fields"
                      /\ file.content = parsed_json

\* The subtasks on which code was generated and saved, in order.
CodedSubtasks == [i \in 1..Len(saved) |-> saved[i].subtask]

\* C12: after plan() then CoderAgent.run(), when no subtask of the persisted
\* Plan's planner.subtasks has a trigger phrase, code was generated and saved
\* exactly once for each of them, in the order plan() returned them.
C12_CoderWorksOnPlannerSubtasks ==
  pc = "coder_done" =>
    LET subtasks == get(get(file.content, "planner", EmptyDict), "subtasks", << >>)
    IN  (\A i \in 1..Len(subtasks) : ~has_trigger(subtasks[i])) =>
          /\ subtasks = result
          /\ CodedSubtasks = subtasks
====
